---- MODULE Spec2Model ----
(***************************************************************************)
(* A model of the healthcare account-management backend (Django + DRF):    *)
(* the users table, the doctor and patient profile tables, the             *)
(* patient-doctor assignment ledger, and the HTTP handlers that read and   *)
(* write them.  Requests run concurrently: a handler that reads the        *)
(* database and writes it later in a separate database transaction is      *)
(* split at that point, so other requests may commit in between.  A block  *)
(* under transaction.atomic is one step.                                   *)
(*                                                                         *)
(* Rows are never removed, so a table is a sequence and a row's primary    *)
(* key (a fresh uuid4 in the code) is its index in the sequence.           *)
(***************************************************************************)
EXTENDS Integers, Sequences, FiniteSets, TLC

VARIABLES users, doctors, patients, assignments, reqs, last, today

vars == <<users, doctors, patients, assignments, reqs, last, today>>

(***************************************************************************)
(* Bounds of the model.                                                    *)
(***************************************************************************)
MaxUsers == 3
MaxAssignments == 2
MaxRequests == 2
MaxDay == 2

(***************************************************************************)
(* Strings are sequences of characters, so that upper(), lower() and       *)
(* strip() are computed and not assumed.                                   *)
(***************************************************************************)
lower_char(c) ==
    CASE c = "A" -> "a"
      [] c = "B" -> "b"
      [] c = "C" -> "c"
      [] c = "D" -> "d"
      [] OTHER -> c

upper_char(c) ==
    CASE c = "a" -> "A"
      [] c = "b" -> "B"
      [] c = "c" -> "C"
      [] c = "d" -> "D"
      [] OTHER -> c

lower(s) == [i \in DOMAIN s |-> lower_char(s[i])]

upper(s) == [i \in DOMAIN s |-> upper_char(s[i])]

RECURSIVE lstrip(_)
lstrip(s) == IF s # <<>> /\ Head(s) = " " THEN lstrip(Tail(s)) ELSE s

RECURSIVE rstrip(_)
rstrip(s) ==
    IF s # <<>> /\ s[Len(s)] = " " THEN rstrip(SubSeq(s, 1, Len(s) - 1)) ELSE s

strip(s) == rstrip(lstrip(s))

(***************************************************************************)
(* Roles, and the queries the handlers make.                               *)
(***************************************************************************)
UserRole == {"admin", "doctor", "patient"}

UserIds == DOMAIN users

\* request.user of an authenticated request: an existing user that is active
\* (the token authentication rejects an inactive user).
Actors == {u \in UserIds : users[u].is_active}

\* ActiveManager.get_queryset: the rows of a table with is_active true.
ActiveManager_get_queryset(table) == {id \in DOMAIN table : table[id].is_active}

\* PatientDoctorAssignment.objects.filter(patient=p, doctor=d, is_active=True)
ActiveAssignments(p, d) ==
    {a \in DOMAIN assignments :
        /\ assignments[a].patient = p
        /\ assignments[a].doctor = d
        /\ assignments[a].is_active}

\* A request slot that holds no request in flight.
Idle == [op |-> "none", actor |-> 0, arg |-> <<>>, snap |-> <<>>]

Requests == 1 .. MaxRequests

\* Slots are interchangeable: a new request takes the first free one.
Free(r) ==
    /\ reqs[r] = Idle
    /\ \A q \in Requests : q < r => reqs[q] # Idle

\* The responses that are an exception no handler converts (a 500): the
\* IntegrityError of a storage constraint, with the constraint it names.
UnhandledErrors ==
    {"IntegrityError(active_pair)", "IntegrityError(email)",
     "IntegrityError(license_number)"}

\* A request that answers: its slot is free again, its response recorded.
Respond(r, op, result) ==
    /\ reqs' = [reqs EXCEPT ![r] = Idle]
    /\ last' = [op |-> op, result |-> result]

\* A request that has read and validated, and has its write still to do.
Proceed(r, op, actor, arg, snap) ==
    /\ reqs' = [reqs EXCEPT ![r] =
                   [op |-> op, actor |-> actor, arg |-> arg, snap |-> snap]]
    /\ UNCHANGED last

(***************************************************************************)
(* The assignment ledger: AssignmentViewSet and its serializers.           *)
(***************************************************************************)
NotesInputs == {"checkup", "follow-up"}

\* The ids a request may name in a user slot: every user, and one id that
\* resolves to no user.
UserIdInputs == 0 .. Len(users)

AssignmentIdInputs == 1 .. MaxAssignments

\* The request bodies of PUT/PATCH /mappings/{id}/: without notes, with notes
\* only, and with notes beside the other fields of the row.
UpdateBodies ==
    {<<>>}
    \cup {[notes |-> n] : n \in NotesInputs}
    \cup {[is_active |-> FALSE]}
    \cup {[notes |-> "follow-up", patient |-> 1, doctor |-> 1,
           assigned_date |-> 0, is_active |-> FALSE, created_by |-> 0]}

\* The storage constraint of the ledger: no two active rows for one pair.
unique_active_patient_doctor_assignment_dropped(table) == TRUE

unique_active_patient_doctor_assignment(table) ==
    \A a, b \in DOMAIN table :
        (/\ a # b
         /\ table[a].is_active
         /\ table[b].is_active
         /\ table[a].patient = table[b].patient)
        => table[a].doctor # table[b].doctor

validate_patient_active_only(value) ==
    users[value].role = "patient" /\ users[value].is_active

validate_patient(value) == users[value].role = "patient"

validate_doctor_any_role(value) == TRUE

validate_doctor(value) == users[value].role = "doctor"

\* AssignmentCreateSerializer.validate: the application-level pre-check.
validate_no_precheck(patient, doctor) == TRUE

validate(patient, doctor) == ActiveAssignments(patient, doctor) = {}

\* serializer.is_valid() of POST /mappings/: the outcome of the field
\* validators, then of validate(); "valid" lets the request go on to save().
AssignmentCreate_is_valid(patient, doctor) ==
    IF \/ (patient \in UserIds /\ ~validate_patient(patient))
       \/ (doctor \in UserIds /\ ~validate_doctor(doctor))
      THEN "RoleMismatch"
    ELSE IF patient \notin UserIds \/ doctor \notin UserIds
      THEN "ValidationError"
    ELSE IF ~validate(patient, doctor)
      THEN "Conflict"
    ELSE "valid"

\* Inserts still to come from requests that passed is_valid().
PendingInserts == {r \in Requests : reqs[r].op = "assign"}

\* POST /mappings/, up to serializer.is_valid(raise_exception=True).
AssignmentViewSet_create_is_valid(r, actor, patient, doctor, notes) ==
    /\ Free(r)
    /\ Len(assignments) + Cardinality(PendingInserts) < MaxAssignments
    /\ LET arg == [patient |-> patient, doctor |-> doctor, notes |-> notes]
           outcome == AssignmentCreate_is_valid(patient, doctor)
       IN  IF outcome = "valid"
             THEN Proceed(r, "assign", actor, arg, <<>>)
             ELSE Respond(r, "assign", outcome)
    /\ UNCHANGED <<users, doctors, patients, assignments, today>>

\* POST /mappings/, serializer.save(created_by=request.user): the INSERT.  A
\* row the storage constraint rejects raises IntegrityError, which the view
\* does not catch.
AssignmentViewSet_create_save(r) ==
    /\ reqs[r].op = "assign"
    /\ LET row == [patient |-> reqs[r].arg.patient,
                   doctor |-> reqs[r].arg.doctor,
                   notes |-> reqs[r].arg.notes,
                   assigned_date |-> today,
                   is_active |-> TRUE,
                   created_by |-> reqs[r].actor]
           table == Append(assignments, row)
       IN  IF unique_active_patient_doctor_assignment(table)
             THEN /\ assignments' = table
                  /\ Respond(r, "assign", "Created")
             ELSE /\ assignments' = assignments
                  /\ Respond(r, "assign", "IntegrityError(active_pair)")
    /\ UNCHANGED <<users, doctors, patients, today>>

\* get_object() of AssignmentViewSet: the row with that id among the active ones.
Assignment_get_object_any_row(id) == id \in DOMAIN assignments

Assignment_get_object(id) == id \in DOMAIN assignments /\ assignments[id].is_active

\* GET /mappings/{id}/: get_object(), then the row serialized (its data is
\* not part of the model); no permission check.
AssignmentViewSet_retrieve(r, actor, id) ==
    /\ Free(r)
    /\ IF ~Assignment_get_object(id)
         THEN Respond(r, "retrieveAssignment", "NotFound")
         ELSE Respond(r, "retrieveAssignment", "OK")
    /\ UNCHANGED <<users, doctors, patients, assignments, today>>

\* The permission check of update and destroy: only the creator.
assignment_permitted_anyone(row, actor) == TRUE

assignment_permitted(row, actor) == row.created_by = actor

\* "Only allow updating notes": the one field update() copies from the body.
apply_notes_and_more(row, body) ==
    [f \in DOMAIN row |-> IF f \in DOMAIN body THEN body[f] ELSE row[f]]

apply_notes(row, body) == [row EXCEPT !.notes = body.notes]

\* PUT and PATCH /mappings/{id}/ (partial_update calls update), up to the
\* write: get_object(), the permission check, the notes set on the instance.
AssignmentViewSet_update_load(r, actor, id, body) ==
    /\ Free(r)
    /\ LET arg == [id |-> id]
       IN  IF ~Assignment_get_object(id)
             THEN Respond(r, "updateNotes", "NotFound")
           ELSE IF ~assignment_permitted(assignments[id], actor)
             THEN Respond(r, "updateNotes", "Forbidden")
           ELSE IF "notes" \notin DOMAIN body
             THEN Respond(r, "updateNotes", "OK")
           ELSE Proceed(r, "updateNotes", actor, arg,
                        apply_notes(assignments[id], body))
    /\ UNCHANGED <<users, doctors, patients, assignments, today>>

\* assignment.save(): an UPDATE of every column of the row from the instance
\* the request loaded.
AssignmentViewSet_update_save(r) ==
    /\ reqs[r].op = "updateNotes"
    /\ LET table == [assignments EXCEPT ![reqs[r].arg.id] = reqs[r].snap]
       IN  IF unique_active_patient_doctor_assignment(table)
             THEN /\ assignments' = table
                  /\ Respond(r, "updateNotes", "OK")
             ELSE /\ assignments' = assignments
                  /\ Respond(r, "updateNotes", "IntegrityError(active_pair)")
    /\ UNCHANGED <<users, doctors, patients, today>>

\* AbstractActive.soft_delete: is_active = False, saved with update_fields.
soft_delete(table, id) == [table EXCEPT ![id].is_active = FALSE]

\* DELETE /mappings/{id}/, up to the write.
AssignmentViewSet_destroy_load(r, actor, id) ==
    /\ Free(r)
    /\ LET arg == [id |-> id]
       IN  IF ~Assignment_get_object(id)
             THEN Respond(r, "unassign", "NotFound")
           ELSE IF ~assignment_permitted(assignments[id], actor)
             THEN Respond(r, "unassign", "Forbidden")
           ELSE Proceed(r, "unassign", actor, arg, <<>>)
    /\ UNCHANGED <<users, doctors, patients, assignments, today>>

\* DELETE /mappings/{id}/: assignment.soft_delete().
AssignmentViewSet_destroy_save(r) ==
    /\ reqs[r].op = "unassign"
    /\ assignments' = soft_delete(assignments, reqs[r].arg.id)
    /\ Respond(r, "unassign", "OK")
    /\ UNCHANGED <<users, doctors, patients, today>>

(***************************************************************************)
(* The identity and profile stores: DoctorViewSet, PatientViewSet and      *)
(* their serializers.                                                      *)
(***************************************************************************)
EmailInputs == {<<"c">>, <<"C">>, <<"d">>}

RegisterEmailInputs == {<<"a">>, <<"A">>, <<"b">>, <<" ", "b">>}

LicenseInputs == {<<"a">>, <<"A">>, <<" ", "b">>}

IsAvailableInputs == {TRUE}

DoctorIdInputs == 1 .. (MaxUsers - 1)

PatientIdInputs == 1 .. (MaxUsers - 1)

\* The bodies of PUT/PATCH /doctors/{id}/: a user-level field, a profile-level
\* field (the license number), and both levels at once.
DoctorPatches ==
    {[phone |-> "555"],
     [license_number |-> <<"b">>],
     [phone |-> "555", license_number |-> <<"a">>, is_available |-> FALSE]}

\* User.save: the email lower-cased and trimmed (the name, normalised beside
\* it, is not part of the model).
User_save(row) == [row EXCEPT !.email = strip(lower(row.email))]

\* UserManager.create_user: the row it saves.
create_user_role_dropped(email, role) ==
    User_save([email |-> lower(email), role |-> "patient", is_active |-> TRUE,
               phone |-> ""])

create_user(email, role) ==
    User_save([email |-> lower(email), role |-> role, is_active |-> TRUE,
               phone |-> ""])

\* DoctorProfile.save: the license number upper-cased and trimmed.
DoctorProfile_save_as_given(row) == row

DoctorProfile_save(row) ==
    [row EXCEPT !.license_number = strip(upper(row.license_number))]

\* users.email is unique.
users_email_unique(table) ==
    \A a, b \in DOMAIN table : a # b => table[a].email # table[b].email

\* doctor_profiles.license_number is unique, over active and inactive rows;
\* so is doctor_profiles.user (the one-to-one field).
doctors_unique(table) ==
    \A a, b \in DOMAIN table :
        a # b => /\ table[a].license_number # table[b].license_number
                 /\ table[a].user # table[b].user

\* A CharField or EmailField of a serializer hands its validators the input
\* with the surrounding whitespace trimmed.
to_internal_value(data) == strip(data)

\* validate_email of the two create serializers: User.objects has every user.
validate_email(value) ==
    \A u \in UserIds : users[u].email # lower(value)

\* validate_license_number: DoctorProfile.objects is the ActiveManager, which
\* has the active profiles only.
validate_license_number_as_given(value) ==
    \A d \in DOMAIN doctors :
        doctors[d].is_active => doctors[d].license_number # value

validate_license_number(value) ==
    \A d \in DOMAIN doctors :
        doctors[d].is_active => doctors[d].license_number # upper(value)

\* Users still to be inserted by requests that passed is_valid().
PendingCreates ==
    {r \in Requests : reqs[r].op \in {"register", "createDoctor", "createPatient"}}

\* The unique validator of the email field of UserRegistrationSerializer: no
\* user has exactly the email given.
register_email_unique(value) ==
    \A u \in UserIds : users[u].email # value

\* The role of a registration body: one of the choices, or not given.
RoleInputs == UserRole \cup {"(absent)"}

\* The role field of UserRegistrationSerializer: default=UserRole.PATIENT.
role_default(role) == IF role \in UserRole THEN role ELSE "patient"

\* POST /auth/register/, up to serializer.is_valid(); no actor is needed.
RegisterView_post_is_valid(r, email, role) ==
    /\ Free(r)
    /\ Len(users) + Cardinality(PendingCreates) < MaxUsers
    /\ LET email_value == to_internal_value(email)
       IN  IF ~register_email_unique(email_value)
             THEN Respond(r, "register", "ValidationError")
             ELSE Proceed(r, "register", 0,
                          [email |-> email_value, role |-> role_default(role)],
                          <<>>)
    /\ UNCHANGED <<users, doctors, patients, assignments, today>>

\* "Auto-create profile based on role": only the patient role gets one.
auto_profile_any_role(role) == TRUE

auto_profile(role) == role = "patient"

\* UserRegistrationSerializer.create under transaction.atomic: the User row
\* and, for the patient role, a PatientProfile the user owns and created.
RegisterView_post_save(r) ==
    /\ reqs[r].op = "register"
    /\ LET user == create_user(reqs[r].arg.email, reqs[r].arg.role)
           users1 == Append(users, user)
           profile == [user |-> Len(users1), blood_group |-> "",
                       is_active |-> TRUE, created_by |-> Len(users1)]
       IN  IF ~users_email_unique(users1)
             THEN /\ UNCHANGED <<users, patients>>
                  /\ Respond(r, "register", "IntegrityError(email)")
             ELSE /\ users' = users1
                  /\ patients' = IF auto_profile(reqs[r].arg.role)
                                   THEN Append(patients, profile)
                                   ELSE patients
                  /\ Respond(r, "register", "Created")
    /\ UNCHANGED <<doctors, assignments, today>>

\* The 400 of a create whose field validators found a value in use, with the
\* fields that serializer.errors names.
Conflict(fields) ==
    CASE fields = {"email"} -> "Conflict(email)"
      [] fields = {"license_number"} -> "Conflict(license_number)"
      [] OTHER -> "Conflict(email, license_number)"

\* POST /doctors/, up to serializer.is_valid(raise_exception=True).
DoctorViewSet_create_is_valid(r, actor, email, license_number, is_available) ==
    /\ Free(r)
    /\ Len(users) + Cardinality(PendingCreates) < MaxUsers
    /\ LET email_value == to_internal_value(email)
           license_value == to_internal_value(license_number)
           errors == {f \in {"email"} : ~validate_email(email_value)}
                     \cup {f \in {"license_number"} :
                              ~validate_license_number(license_value)}
       IN  IF errors # {}
             THEN Respond(r, "createDoctor", Conflict(errors))
             ELSE Proceed(r, "createDoctor", actor,
                          [email |-> lower(email_value),
                           license_number |-> upper(license_value),
                           is_available |-> is_available], <<>>)
    /\ UNCHANGED <<users, doctors, patients, assignments, today>>

\* What a failed profile INSERT leaves of the transaction: nothing.
rollback_keeps_user(before, after) == after

rollback(before, after) == before

\* DoctorCreateSerializer.create under transaction.atomic: the User row, then
\* the DoctorProfile row; an IntegrityError of either undoes both.
DoctorViewSet_create_save(r) ==
    /\ reqs[r].op = "createDoctor"
    /\ LET user == create_user(reqs[r].arg.email, "doctor")
           users1 == Append(users, user)
           profile == DoctorProfile_save(
                          [user |-> Len(users1),
                           license_number |-> reqs[r].arg.license_number,
                           is_available |-> reqs[r].arg.is_available,
                           is_active |-> TRUE,
                           created_by |-> reqs[r].actor])
           doctors1 == Append(doctors, profile)
       IN  IF ~users_email_unique(users1)
             THEN /\ UNCHANGED <<users, doctors>>
                  /\ Respond(r, "createDoctor", "IntegrityError(email)")
           ELSE IF ~doctors_unique(doctors1)
             THEN /\ users' = rollback(users, users1)
                  /\ UNCHANGED doctors
                  /\ Respond(r, "createDoctor", "IntegrityError(license_number)")
           ELSE /\ users' = users1
                /\ doctors' = doctors1
                /\ Respond(r, "createDoctor", "Created")
    /\ UNCHANGED <<patients, assignments, today>>

\* POST /patients/, up to serializer.is_valid(raise_exception=True).
PatientViewSet_create_is_valid(r, actor, email) ==
    /\ Free(r)
    /\ Len(users) + Cardinality(PendingCreates) < MaxUsers
    /\ LET email_value == to_internal_value(email)
       IN  IF ~validate_email(email_value)
             THEN Respond(r, "createPatient", "Conflict")
             ELSE Proceed(r, "createPatient", actor,
                          [email |-> lower(email_value)], <<>>)
    /\ UNCHANGED <<users, doctors, patients, assignments, today>>

\* PatientCreateSerializer.create under transaction.atomic.
PatientViewSet_create_save(r) ==
    /\ reqs[r].op = "createPatient"
    /\ LET user == create_user(reqs[r].arg.email, "patient")
           users1 == Append(users, user)
           profile == [user |-> Len(users1), blood_group |-> "",
                       is_active |-> TRUE, created_by |-> reqs[r].actor]
       IN  IF ~users_email_unique(users1)
             THEN /\ UNCHANGED <<users, patients>>
                  /\ Respond(r, "createPatient", "IntegrityError(email)")
             ELSE /\ users' = users1
                  /\ patients' = Append(patients, profile)
                  /\ Respond(r, "createPatient", "Created")
    /\ UNCHANGED <<doctors, assignments, today>>

\* get_object() of DoctorViewSet: the profile with that id among the active ones.
Doctor_get_object(id) == id \in DOMAIN doctors /\ doctors[id].is_active

\* GET /doctors/{id}/: get_object(), then the profile serialized (its data is
\* not part of the model); no permission check.
DoctorViewSet_retrieve(r, actor, id) ==
    /\ Free(r)
    /\ IF ~Doctor_get_object(id)
         THEN Respond(r, "retrieveDoctor", "NotFound")
         ELSE Respond(r, "retrieveDoctor", "OK")
    /\ UNCHANGED <<users, doctors, patients, assignments, today>>

\* DoctorViewSet.get_queryset: DoctorProfile.objects (the ActiveManager)
\* filtered by is_active=True.
DoctorViewSet_get_queryset ==
    {id \in ActiveManager_get_queryset(doctors) : doctors[id].is_active}

\* GET /doctors/: the profiles of the queryset, for any authenticated actor.
DoctorViewSet_list(r, actor) ==
    /\ Free(r)
    /\ Respond(r, "listDoctors", DoctorViewSet_get_queryset)
    /\ UNCHANGED <<users, doctors, patients, assignments, today>>

\* GET /doctors/available/: the queryset filtered by is_available=True.
DoctorViewSet_available(r, actor) ==
    /\ Free(r)
    /\ Respond(r, "listAvailableDoctors",
               {id \in DoctorViewSet_get_queryset : doctors[id].is_available})
    /\ UNCHANGED <<users, doctors, patients, assignments, today>>

\* The emails of a login body: that of a user as stored, in another letter
\* case, and one of no user.
LoginEmailInputs == {<<"c">>, <<"C">>, <<"x">>}

\* authenticate(email, password) of the auth provider: the user of that
\* email, letter case ignored, when the password verifies, the inactive user
\* included; 0 stands for None.
authenticate(email, password_verifies) ==
    IF password_verifies /\ \E u \in UserIds : users[u].email = lower(email)
      THEN CHOOSE u \in UserIds : users[u].email = lower(email)
      ELSE 0

\* What LoginView.post answers for the user authenticate() returned.
login_response(user) ==
    IF user = 0 THEN "INVALID_CREDENTIALS"
    ELSE IF ~users[user].is_active THEN "ACCOUNT_DISABLED"
    ELSE "OK"

\* POST /auth/login/; the tokens are issued with the answer "OK" only.
LoginView_post(r, email, password_verifies) ==
    /\ Free(r)
    /\ Respond(r, "login",
               login_response(authenticate(to_internal_value(email),
                                           password_verifies)))
    /\ UNCHANGED <<users, doctors, patients, assignments, today>>

\* The permission check of DoctorViewSet.update and partial_update.
doctor_update_permitted_creator_only(doctor, actor) == doctor.created_by = actor

doctor_update_permitted(doctor, actor) ==
    ~(doctor.created_by # actor /\ doctor.user # actor)

\* The permission check of DoctorViewSet.destroy.
doctor_destroy_permitted(doctor, actor) == ~(doctor.created_by # actor)

\* DoctorUpdateSerializer.is_valid: a PUT needs the license number; the
\* license number as given must not be that of another profile the default
\* manager (the ActiveManager) has.
DoctorUpdate_is_valid(id, patch, partial) ==
    /\ partial \/ "license_number" \in DOMAIN patch
    /\ "license_number" \in DOMAIN patch =>
           \A d \in DOMAIN doctors :
               (d # id /\ doctors[d].is_active)
               => doctors[d].license_number
                      # to_internal_value(patch.license_number)

UserFields == {"phone"}

\* The setattr loops of DoctorUpdateSerializer.update.
patch_user(user, patch) ==
    [f \in DOMAIN user |->
        IF f \in UserFields /\ f \in DOMAIN patch THEN patch[f] ELSE user[f]]

patch_profile(profile, patch) ==
    [f \in DOMAIN profile |->
        IF f \notin UserFields /\ f \in DOMAIN patch THEN patch[f] ELSE profile[f]]

\* PUT and PATCH /doctors/{id}/, up to the write: get_object(), the
\* permission check, serializer.is_valid(raise_exception=True).
DoctorViewSet_update_load(r, actor, id, patch, partial) ==
    /\ Free(r)
    /\ IF ~Doctor_get_object(id)
         THEN Respond(r, "updateDoctor", "NotFound")
       ELSE IF ~doctor_update_permitted(doctors[id], actor)
         THEN Respond(r, "updateDoctor", "Forbidden")
       ELSE IF ~DoctorUpdate_is_valid(id, patch, partial)
         THEN Respond(r, "updateDoctor", "ValidationError")
       ELSE Proceed(r, "updateDoctor", actor, [id |-> id, patch |-> patch],
                    [user |-> users[doctors[id].user], profile |-> doctors[id]])
    /\ UNCHANGED <<users, doctors, patients, assignments, today>>

\* DoctorUpdateSerializer.update under transaction.atomic: user.save() and
\* instance.save(), each an UPDATE of every column from the loaded instance.
DoctorViewSet_update_save(r) ==
    /\ reqs[r].op = "updateDoctor"
    /\ LET id == reqs[r].arg.id
           uid == reqs[r].snap.profile.user
           user == User_save(patch_user(reqs[r].snap.user, reqs[r].arg.patch))
           profile == DoctorProfile_save(
                          patch_profile(reqs[r].snap.profile, reqs[r].arg.patch))
           users1 == [users EXCEPT ![uid] = user]
           doctors1 == [doctors EXCEPT ![id] = profile]
       IN  IF ~doctors_unique(doctors1)
             THEN /\ users' = rollback(users, users1)
                  /\ UNCHANGED doctors
                  /\ Respond(r, "updateDoctor", "IntegrityError(license_number)")
             ELSE /\ users' = users1
                  /\ doctors' = doctors1
                  /\ Respond(r, "updateDoctor", "OK")
    /\ UNCHANGED <<patients, assignments, today>>

\* DELETE /doctors/{id}/, up to the first write.
DoctorViewSet_destroy_load(r, actor, id) ==
    /\ Free(r)
    /\ IF ~Doctor_get_object(id)
         THEN Respond(r, "softDeleteDoctor", "NotFound")
       ELSE IF ~doctor_destroy_permitted(doctors[id], actor)
         THEN Respond(r, "softDeleteDoctor", "Forbidden")
       ELSE Proceed(r, "softDeleteDoctor", actor,
                    [id |-> id, user |-> doctors[id].user], "profile")
    /\ UNCHANGED <<users, doctors, patients, assignments, today>>

\* DELETE /doctors/{id}/: doctor.soft_delete(), committed on its own.
DoctorViewSet_destroy_soft_delete(r) ==
    /\ reqs[r].op = "softDeleteDoctor"
    /\ reqs[r].snap = "profile"
    /\ doctors' = soft_delete(doctors, reqs[r].arg.id)
    /\ reqs' = [reqs EXCEPT ![r].snap = "user"]
    /\ UNCHANGED <<users, patients, assignments, last, today>>

\* DELETE /doctors/{id}/: doctor.user.save(update_fields=['is_active']).
DoctorViewSet_destroy_user_save(r) ==
    /\ reqs[r].op = "softDeleteDoctor"
    /\ reqs[r].snap = "user"
    /\ users' = [users EXCEPT ![reqs[r].arg.user].is_active = FALSE]
    /\ Respond(r, "softDeleteDoctor", "OK")
    /\ UNCHANGED <<doctors, patients, assignments, today>>

\* PatientViewSet.get_queryset: PatientProfile.objects (the ActiveManager)
\* filtered by is_active=True and created_by=request.user.
PatientViewSet_get_queryset_any_creator(actor) ==
    {id \in ActiveManager_get_queryset(patients) : patients[id].is_active}

PatientViewSet_get_queryset(actor) ==
    {id \in ActiveManager_get_queryset(patients) :
        patients[id].is_active /\ patients[id].created_by = actor}

\* GET /patients/: the profiles of the queryset.
PatientViewSet_list(r, actor) ==
    /\ Free(r)
    /\ Respond(r, "listPatients", PatientViewSet_get_queryset(actor))
    /\ UNCHANGED <<users, doctors, patients, assignments, today>>

\* get_object() of PatientViewSet: among the active profiles the actor created.
Patient_get_object_any_creator(id, actor) ==
    id \in DOMAIN patients /\ patients[id].is_active

Patient_get_object(id, actor) ==
    /\ id \in DOMAIN patients
    /\ patients[id].is_active
    /\ patients[id].created_by = actor

\* GET /patients/{id}/: get_object(), then the profile serialized (its data
\* is not part of the model).
PatientViewSet_retrieve(r, actor, id) ==
    /\ Free(r)
    /\ IF ~Patient_get_object(id, actor)
         THEN Respond(r, "retrievePatient", "NotFound")
         ELSE Respond(r, "retrievePatient", "OK")
    /\ UNCHANGED <<users, doctors, patients, assignments, today>>

\* PatientDoctorsSerializer: what a listing shows of an assignment row.
PatientDoctorsSerializer(id) ==
    [id |-> id, doctor |-> assignments[id].doctor, notes |-> assignments[id].notes,
     assigned_date |-> assignments[id].assigned_date,
     is_active |-> assignments[id].is_active]

\* get_object_or_404(User, pk=patient_id, role=PATIENT, is_active=True) of
\* patient_mappings: whether it finds the user.
patient_mappings_patient_any_status(patient_id) ==
    /\ patient_id \in UserIds
    /\ users[patient_id].role = "patient"

patient_mappings_patient(patient_id) ==
    /\ patient_id \in UserIds
    /\ users[patient_id].role = "patient"
    /\ users[patient_id].is_active

\* GET /mappings/patient/{patient_id}/: get_object_or_404 of an active user
\* of the patient role, then the active assignments of that patient.
AssignmentViewSet_patient_mappings(patient_id) ==
    IF ~patient_mappings_patient(patient_id)
      THEN [status |-> "NotFound", data |-> {}]
      ELSE [status |-> "OK",
            data |-> {PatientDoctorsSerializer(a) :
                        a \in {b \in ActiveManager_get_queryset(assignments) :
                                 /\ assignments[b].is_active
                                 /\ assignments[b].patient = patient_id}}]

\* GET /mappings/patient/{patient_id}/ as a request: the answer of
\* patient_mappings, whoever the authenticated actor is.
AssignmentViewSet_patient_mappings_get(r, actor, patient_id) ==
    /\ Free(r)
    /\ Respond(r, "listForPatient", AssignmentViewSet_patient_mappings(patient_id))
    /\ UNCHANGED <<users, doctors, patients, assignments, today>>

\* GET /patients/{id}/doctors/: get_object() of the patient profile, then the
\* active assignments of its user.
PatientViewSet_doctors(id, actor) ==
    IF ~Patient_get_object(id, actor)
      THEN [status |-> "NotFound", data |-> {}]
      ELSE [status |-> "OK",
            data |-> {PatientDoctorsSerializer(a) :
                        a \in {b \in ActiveManager_get_queryset(assignments) :
                                 /\ assignments[b].patient = patients[id].user
                                 /\ assignments[b].is_active}}]

\* The choices of PatientProfile.blood_group.
BloodGroups == {"A+", "A-", "B+", "B-", "AB+", "AB-", "O+", "O-"}

\* The bodies of PUT/PATCH /patients/{id}/: a user-level field, a profile-level
\* field, and a profile-level field with a value that is no choice.
PatientPatches ==
    {[phone |-> "555"], [blood_group |-> "A+"], [blood_group |-> "X"]}

\* PatientUpdateSerializer.is_valid: no field is required; a blood group must
\* be one of the choices.
PatientUpdate_is_valid(patch, partial) ==
    "blood_group" \in DOMAIN patch => patch.blood_group \in BloodGroups

\* PUT and PATCH /patients/{id}/, up to the write: get_object(), then
\* serializer.is_valid(raise_exception=True); no permission check.
PatientViewSet_update_load(r, actor, id, patch, partial) ==
    /\ Free(r)
    /\ IF ~Patient_get_object(id, actor)
         THEN Respond(r, "updatePatient", "NotFound")
       ELSE IF ~PatientUpdate_is_valid(patch, partial)
         THEN Respond(r, "updatePatient", "ValidationError")
       ELSE Proceed(r, "updatePatient", actor, [id |-> id, patch |-> patch],
                    [user |-> users[patients[id].user], profile |-> patients[id]])
    /\ UNCHANGED <<users, doctors, patients, assignments, today>>

\* PatientUpdateSerializer.update under transaction.atomic: user.save() and
\* instance.save(), each an UPDATE of every column from the loaded instance.
PatientViewSet_update_save(r) ==
    /\ reqs[r].op = "updatePatient"
    /\ LET id == reqs[r].arg.id
           uid == reqs[r].snap.profile.user
           user == User_save(patch_user(reqs[r].snap.user, reqs[r].arg.patch))
           profile == patch_profile(reqs[r].snap.profile, reqs[r].arg.patch)
       IN  /\ users' = [users EXCEPT ![uid] = user]
           /\ patients' = [patients EXCEPT ![id] = profile]
           /\ Respond(r, "updatePatient", "OK")
    /\ UNCHANGED <<doctors, assignments, today>>

\* DELETE /patients/{id}/, up to the first write.
PatientViewSet_destroy_load(r, actor, id) ==
    /\ Free(r)
    /\ IF ~Patient_get_object(id, actor)
         THEN Respond(r, "softDeletePatient", "NotFound")
         ELSE Proceed(r, "softDeletePatient", actor,
                      [id |-> id, user |-> patients[id].user], "profile")
    /\ UNCHANGED <<users, doctors, patients, assignments, today>>

\* DELETE /patients/{id}/: patient.soft_delete(), committed on its own.
PatientViewSet_destroy_soft_delete(r) ==
    /\ reqs[r].op = "softDeletePatient"
    /\ reqs[r].snap = "profile"
    /\ patients' = soft_delete(patients, reqs[r].arg.id)
    /\ reqs' = [reqs EXCEPT ![r].snap = "user"]
    /\ UNCHANGED <<users, doctors, assignments, last, today>>

\* DELETE /patients/{id}/: patient.user.save(update_fields=['is_active']).
PatientViewSet_destroy_user_save(r) ==
    /\ reqs[r].op = "softDeletePatient"
    /\ reqs[r].snap = "user"
    /\ users' = [users EXCEPT ![reqs[r].arg.user].is_active = FALSE]
    /\ Respond(r, "softDeletePatient", "OK")
    /\ UNCHANGED <<doctors, patients, assignments, today>>

RetrieveDoctor ==
    \E r \in Requests, actor \in Actors, id \in DoctorIdInputs :
        DoctorViewSet_retrieve(r, actor, id)

RetrievePatient ==
    \E r \in Requests, actor \in Actors, id \in PatientIdInputs :
        PatientViewSet_retrieve(r, actor, id)

Register ==
    \E r \in Requests, email \in RegisterEmailInputs, role \in RoleInputs :
        RegisterView_post_is_valid(r, email, role)

RegisterSave == \E r \in Requests : RegisterView_post_save(r)

CreateDoctor ==
    \E r \in Requests, actor \in Actors, email \in EmailInputs,
       license_number \in LicenseInputs, is_available \in IsAvailableInputs :
        DoctorViewSet_create_is_valid(r, actor, email, license_number, is_available)

CreateDoctorSave == \E r \in Requests : DoctorViewSet_create_save(r)

CreatePatient ==
    \E r \in Requests, actor \in Actors, email \in EmailInputs :
        PatientViewSet_create_is_valid(r, actor, email)

CreatePatientSave == \E r \in Requests : PatientViewSet_create_save(r)

UpdateDoctor ==
    \E r \in Requests, actor \in Actors, id \in DoctorIdInputs,
       patch \in DoctorPatches, partial \in BOOLEAN :
        DoctorViewSet_update_load(r, actor, id, patch, partial)

UpdateDoctorSave == \E r \in Requests : DoctorViewSet_update_save(r)

SoftDeleteDoctor ==
    \E r \in Requests, actor \in Actors, id \in DoctorIdInputs :
        DoctorViewSet_destroy_load(r, actor, id)

SoftDeleteDoctorProfile == \E r \in Requests : DoctorViewSet_destroy_soft_delete(r)

SoftDeleteDoctorUser == \E r \in Requests : DoctorViewSet_destroy_user_save(r)

SoftDeletePatient ==
    \E r \in Requests, actor \in Actors, id \in PatientIdInputs :
        PatientViewSet_destroy_load(r, actor, id)

SoftDeletePatientProfile == \E r \in Requests : PatientViewSet_destroy_soft_delete(r)

SoftDeletePatientUser == \E r \in Requests : PatientViewSet_destroy_user_save(r)

ListPatients ==
    \E r \in Requests, actor \in Actors : PatientViewSet_list(r, actor)

UpdatePatient ==
    \E r \in Requests, actor \in Actors, id \in PatientIdInputs,
       patch \in PatientPatches, partial \in BOOLEAN :
        PatientViewSet_update_load(r, actor, id, patch, partial)

UpdatePatientSave == \E r \in Requests : PatientViewSet_update_save(r)

ListDoctors ==
    \E r \in Requests, actor \in Actors : DoctorViewSet_list(r, actor)

ListAvailableDoctors ==
    \E r \in Requests, actor \in Actors : DoctorViewSet_available(r, actor)

Login ==
    \E r \in Requests, email \in LoginEmailInputs, password_verifies \in BOOLEAN :
        LoginView_post(r, email, password_verifies)

\* The create and soft-delete flows, from a database with an admin and
\* nothing else.
NextCreate ==
    \/ CreateDoctor
    \/ CreateDoctorSave
    \/ CreatePatient
    \/ CreatePatientSave
    \/ SoftDeleteDoctor
    \/ SoftDeleteDoctorProfile
    \/ SoftDeleteDoctorUser
    \/ SoftDeletePatient
    \/ SoftDeletePatientProfile
    \/ SoftDeletePatientUser

InitCreate ==
    /\ users = << [email |-> <<"a">>, role |-> "admin", is_active |-> TRUE, phone |-> ""] >>
    /\ doctors = <<>>
    /\ patients = <<>>
    /\ assignments = <<>>
    /\ reqs = [r \in Requests |-> Idle]
    /\ last = [op |-> "none", result |-> "none"]
    /\ today = 1

SpecCreate == InitCreate /\ [][NextCreate]_vars

\* The update and soft-delete flows of the doctors, from a database with an
\* admin and two doctors the admin created.
NextDoctor ==
    \/ UpdateDoctor
    \/ UpdateDoctorSave
    \/ SoftDeleteDoctor
    \/ SoftDeleteDoctorProfile
    \/ SoftDeleteDoctorUser

InitDoctor ==
    /\ users = << [email |-> <<"a">>, role |-> "admin", is_active |-> TRUE, phone |-> ""],
                  [email |-> <<"c">>, role |-> "doctor", is_active |-> TRUE, phone |-> ""],
                  [email |-> <<"d">>, role |-> "doctor", is_active |-> TRUE, phone |-> ""] >>
    /\ doctors = << [user |-> 2, license_number |-> <<"A">>, is_available |-> TRUE,
                     is_active |-> TRUE, created_by |-> 1],
                    [user |-> 3, license_number |-> <<"B">>, is_available |-> TRUE,
                     is_active |-> TRUE, created_by |-> 1] >>
    /\ patients = <<>>
    /\ assignments = <<>>
    /\ reqs = [r \in Requests |-> Idle]
    /\ last = [op |-> "none", result |-> "none"]
    /\ today = 1

SpecDoctor == InitDoctor /\ [][NextDoctor]_vars

\* The whole life of the doctor profiles, from a database with an admin and
\* one doctor the admin created.
NextLicense ==
    \/ CreateDoctor
    \/ CreateDoctorSave
    \/ UpdateDoctor
    \/ UpdateDoctorSave
    \/ SoftDeleteDoctor
    \/ SoftDeleteDoctorProfile
    \/ SoftDeleteDoctorUser

InitLicense ==
    /\ users = << [email |-> <<"a">>, role |-> "admin", is_active |-> TRUE, phone |-> ""],
                  [email |-> <<"c">>, role |-> "doctor", is_active |-> TRUE, phone |-> ""] >>
    /\ doctors = << [user |-> 2, license_number |-> <<"A">>, is_available |-> TRUE,
                     is_active |-> TRUE, created_by |-> 1] >>
    /\ patients = <<>>
    /\ assignments = <<>>
    /\ reqs = [r \in Requests |-> Idle]
    /\ last = [op |-> "none", result |-> "none"]
    /\ today = 1

SpecLicense == InitLicense /\ [][NextLicense]_vars

\* The whole life of the patient profiles, from a database with an admin and
\* a patient that registered itself.
NextPatient ==
    \/ CreatePatient
    \/ CreatePatientSave
    \/ ListPatients
    \/ UpdatePatient
    \/ UpdatePatientSave
    \/ SoftDeletePatient
    \/ SoftDeletePatientProfile
    \/ SoftDeletePatientUser

InitPatient ==
    /\ users = << [email |-> <<"a">>, role |-> "admin", is_active |-> TRUE, phone |-> ""],
                  [email |-> <<"b">>, role |-> "patient", is_active |-> TRUE, phone |-> ""] >>
    /\ doctors = <<>>
    /\ patients = << [user |-> 2, blood_group |-> "", is_active |-> TRUE,
                      created_by |-> 2] >>
    /\ assignments = <<>>
    /\ reqs = [r \in Requests |-> Idle]
    /\ last = [op |-> "none", result |-> "none"]
    /\ today = 1

SpecPatient == InitPatient /\ [][NextPatient]_vars

\* What the doctors' updates and soft deletes let the listings and the login
\* see, from a database with an admin and two doctors the admin created.
NextAccess ==
    \/ UpdateDoctor
    \/ UpdateDoctorSave
    \/ SoftDeleteDoctor
    \/ SoftDeleteDoctorProfile
    \/ SoftDeleteDoctorUser
    \/ ListDoctors
    \/ ListAvailableDoctors
    \/ Login

SpecAccess == InitDoctor /\ [][NextAccess]_vars

\* The date moves on (assigned_date is the date of the INSERT).
Tick ==
    /\ today < MaxDay
    /\ today' = today + 1
    /\ UNCHANGED <<users, doctors, patients, assignments, reqs, last>>

Assign ==
    \E r \in Requests, actor \in Actors, patient, doctor \in UserIdInputs,
       notes \in NotesInputs :
        AssignmentViewSet_create_is_valid(r, actor, patient, doctor, notes)

AssignSave == \E r \in Requests : AssignmentViewSet_create_save(r)

UpdateNotes ==
    \E r \in Requests, actor \in Actors, id \in AssignmentIdInputs,
       body \in UpdateBodies :
        AssignmentViewSet_update_load(r, actor, id, body)

UpdateNotesSave == \E r \in Requests : AssignmentViewSet_update_save(r)

Unassign ==
    \E r \in Requests, actor \in Actors, id \in AssignmentIdInputs :
        AssignmentViewSet_destroy_load(r, actor, id)

UnassignSave == \E r \in Requests : AssignmentViewSet_destroy_save(r)

RetrieveAssignment ==
    \E r \in Requests, actor \in Actors, id \in AssignmentIdInputs :
        AssignmentViewSet_retrieve(r, actor, id)

ListForPatient ==
    \E r \in Requests, actor \in Actors, patient_id \in UserIdInputs :
        AssignmentViewSet_patient_mappings_get(r, actor, patient_id)

NextLedger ==
    \/ Assign
    \/ AssignSave
    \/ UpdateNotes
    \/ UpdateNotesSave
    \/ Unassign
    \/ UnassignSave
    \/ Tick

\* A database with an admin, a self-registered patient and a doctor the admin
\* created, and an empty ledger.
InitLedger ==
    /\ users = << [email |-> <<"a">>, role |-> "admin", is_active |-> TRUE, phone |-> ""],
                  [email |-> <<"b">>, role |-> "patient", is_active |-> TRUE, phone |-> ""],
                  [email |-> <<"c">>, role |-> "doctor", is_active |-> TRUE, phone |-> ""] >>
    /\ doctors = << [user |-> 3, license_number |-> <<"A">>, is_available |-> TRUE,
                     is_active |-> TRUE, created_by |-> 1] >>
    /\ patients = << [user |-> 2, blood_group |-> "", is_active |-> TRUE,
                      created_by |-> 2] >>
    /\ assignments = <<>>
    /\ reqs = [r \in Requests |-> Idle]
    /\ last = [op |-> "none", result |-> "none"]
    /\ today = 1

SpecLedger == InitLedger /\ [][NextLedger]_vars

\* Assigning and unassigning beside the soft delete of the patient.
NextRoundTrip ==
    \/ Assign
    \/ AssignSave
    \/ Unassign
    \/ UnassignSave
    \/ SoftDeletePatient
    \/ SoftDeletePatientProfile
    \/ SoftDeletePatientUser

SpecRoundTrip == InitLedger /\ [][NextRoundTrip]_vars

\* The ledger beside the soft deletes of the patient and of the doctor, with
\* the listing of a patient's assignments.
NextMappings ==
    \/ Assign
    \/ AssignSave
    \/ Unassign
    \/ UnassignSave
    \/ SoftDeletePatient
    \/ SoftDeletePatientProfile
    \/ SoftDeletePatientUser
    \/ SoftDeleteDoctor
    \/ SoftDeleteDoctorProfile
    \/ SoftDeleteDoctorUser
    \/ ListForPatient

SpecMappings == InitLedger /\ [][NextMappings]_vars

\* Retrieve, update and soft delete of the three kinds of record, from a
\* database with an admin, a patient the admin created and assigned to a
\* doctor, and that doctor, soft-deleted since: no request for the doctor
\* profile gets as far as a write.
NextRecords ==
    \/ RetrieveDoctor
    \/ UpdateDoctor
    \/ SoftDeleteDoctor
    \/ RetrievePatient
    \/ UpdatePatient
    \/ UpdatePatientSave
    \/ SoftDeletePatient
    \/ SoftDeletePatientProfile
    \/ SoftDeletePatientUser
    \/ RetrieveAssignment
    \/ UpdateNotes
    \/ UpdateNotesSave
    \/ Unassign
    \/ UnassignSave

InitRecords ==
    /\ users = << [email |-> <<"a">>, role |-> "admin", is_active |-> TRUE, phone |-> ""],
                  [email |-> <<"b">>, role |-> "patient", is_active |-> TRUE, phone |-> ""],
                  [email |-> <<"c">>, role |-> "doctor", is_active |-> FALSE, phone |-> ""] >>
    /\ doctors = << [user |-> 3, license_number |-> <<"A">>, is_available |-> TRUE,
                     is_active |-> FALSE, created_by |-> 1] >>
    /\ patients = << [user |-> 2, blood_group |-> "", is_active |-> TRUE,
                      created_by |-> 1] >>
    /\ assignments = << [patient |-> 2, doctor |-> 3, notes |-> "checkup",
                         assigned_date |-> 1, is_active |-> TRUE,
                         created_by |-> 1] >>
    /\ reqs = [r \in Requests |-> Idle]
    /\ last = [op |-> "none", result |-> "none"]
    /\ today = 1

SpecRecords == InitRecords /\ [][NextRecords]_vars

(***************************************************************************)
(* The whole program, from an empty database.                              *)
(***************************************************************************)
Init ==
    /\ users = <<>>
    /\ doctors = <<>>
    /\ patients = <<>>
    /\ assignments = <<>>
    /\ reqs = [r \in Requests |-> Idle]
    /\ last = [op |-> "none", result |-> "none"]
    /\ today = 1

Next ==
    \/ Register
    \/ RegisterSave
    \/ NextCreate
    \/ NextDoctor
    \/ NextPatient
    \/ NextAccess
    \/ NextLedger
    \/ NextMappings
    \/ NextRecords

Spec == Init /\ [][Next]_vars

\* Registration alone, from an empty database.
NextRegister ==
    \/ Register
    \/ RegisterSave

SpecRegister == Init /\ [][NextRegister]_vars

(***************************************************************************)
(* The assignment ledger's properties, checked under SpecLedger.           *)
(***************************************************************************)

\* This step is the first step of a request of that operation in slot r: the
\* slot was free, and now holds the request or its response is the last one.
Begins(r, op) ==
    /\ reqs[r] = Idle
    /\ reqs'[r].op = op \/ (reqs'[r] = Idle /\ last'.op = op)

\* This step is the write of the request of that operation in slot r.
Writes(r, op) == reqs[r].op = op /\ reqs'[r] # reqs[r]

\* C1: in every reachable state, whatever the interleaving of assign,
\* updateNotes and unassign requests, each (patient, doctor) pair has at most
\* one assignment row with is_active true; inactive rows of the pair may stand
\* beside it.
C1_AtMostOneActivePerPair ==
    \A p, d \in UserIds : Cardinality(ActiveAssignments(p, d)) <= 1

\* An active row of a pair beside an inactive row of the same pair.
C1_Witness ==
    \E a, b \in DOMAIN assignments :
        /\ assignments[a].patient = assignments[b].patient
        /\ assignments[a].doctor = assignments[b].doctor
        /\ ~assignments[a].is_active
        /\ assignments[b].is_active

\* C2: an assign request answers with success or with a typed failure; the
\* request that loses a race for a pair gets Conflict, never an exception
\* that no handler converts.
C2_LoserGetsConflict ==
    last.op = "assign"
    => /\ last.result \notin UnhandledErrors
       /\ last.result \in {"Created", "Conflict", "RoleMismatch", "ValidationError"}

\* C3: an assign for a pair that has an active row answers Conflict and
\* writes nothing; an assign for a pair without an active row is let through
\* and its insert creates a new row under a fresh id, active, leaving every
\* earlier row as it was, the earlier rows of the pair inactive.
C3_ConflictThenReassign ==
    [][/\ \A r \in Requests : Begins(r, "assign") =>
          \A actor \in Actors, p, d \in UserIds, n \in NotesInputs :
            AssignmentViewSet_create_is_valid(r, actor, p, d, n)
            => IF ActiveAssignments(p, d) # {}
                 THEN /\ reqs'[r] = Idle
                      /\ last' = [op |-> "assign", result |-> "Conflict"]
                      /\ assignments' = assignments
               ELSE IF users[p].role = "patient" /\ users[d].role = "doctor"
                 THEN reqs'[r].op = "assign" /\ assignments' = assignments
               ELSE TRUE
       /\ \A r \in Requests :
            (/\ Writes(r, "assign")
             /\ AssignmentViewSet_create_save(r)
             /\ ActiveAssignments(reqs[r].arg.patient, reqs[r].arg.doctor) = {})
            => /\ last' = [op |-> "assign", result |-> "Created"]
               /\ Len(assignments') = Len(assignments) + 1
               /\ Len(assignments') \notin DOMAIN assignments
               /\ assignments'[Len(assignments')].is_active
               /\ assignments'[Len(assignments')].patient = reqs[r].arg.patient
               /\ assignments'[Len(assignments')].doctor = reqs[r].arg.doctor
               /\ \A a \in DOMAIN assignments :
                    /\ assignments'[a] = assignments[a]
                    /\ (/\ assignments[a].patient = reqs[r].arg.patient
                        /\ assignments[a].doctor = reqs[r].arg.doctor)
                       => ~assignments'[a].is_active
      ]_vars

\* A pair assigned again after its unassign: the earlier row inactive, the
\* later row active, the last response the creation.
C3_Witness ==
    /\ last = [op |-> "assign", result |-> "Created"]
    /\ \E a, b \in DOMAIN assignments :
        /\ a < b
        /\ assignments[a].patient = assignments[b].patient
        /\ assignments[a].doctor = assignments[b].doctor
        /\ ~assignments[a].is_active
        /\ assignments[b].is_active

\* C4: an assign whose patient slot names a user that is no patient, or whose
\* doctor slot names a user that is no doctor, answers RoleMismatch and writes
\* nothing; every row of the ledger links a patient to a doctor.
C4_RoleMismatch ==
    [][/\ \A r \in Requests : Begins(r, "assign") =>
          \A actor \in Actors, p, d \in UserIds, n \in NotesInputs :
            (/\ AssignmentViewSet_create_is_valid(r, actor, p, d, n)
             /\ (users[p].role # "patient" \/ users[d].role # "doctor"))
            => /\ reqs'[r] = Idle
               /\ last' = [op |-> "assign", result |-> "RoleMismatch"]
               /\ assignments' = assignments
       /\ \A a \in DOMAIN assignments' :
            /\ users'[assignments'[a].patient].role = "patient"
            /\ users'[assignments'[a].doctor].role = "doctor"
      ]_vars

\* A role mismatch has been answered while the ledger has a row.
C4_Witness ==
    /\ last = [op |-> "assign", result |-> "RoleMismatch"]
    /\ assignments # <<>>

\* C9: updateNotes and unassign of an active assignment by an actor other than
\* its creator answer Forbidden and leave the ledger as it is; the notes or
\* the is_active of a row change only by a request of the row's creator.
C9_CreatorOnly ==
    [][/\ \A r \in Requests :
          (Begins(r, "updateNotes") \/ Begins(r, "unassign")) =>
          \A actor \in Actors, id \in DOMAIN assignments :
            (/\ assignments[id].is_active
             /\ actor # assignments[id].created_by
             /\ \/ \E body \in UpdateBodies :
                      AssignmentViewSet_update_load(r, actor, id, body)
                \/ AssignmentViewSet_destroy_load(r, actor, id))
            => /\ reqs'[r] = Idle
               /\ last'.result = "Forbidden"
               /\ assignments' = assignments
       /\ \A id \in DOMAIN assignments :
            (\/ assignments'[id].notes # assignments[id].notes
             \/ assignments'[id].is_active # assignments[id].is_active)
            => \E r \in Requests :
                 /\ reqs[r].op \in {"updateNotes", "unassign"}
                 /\ reqs[r].arg.id = id
                 /\ reqs[r].actor = assignments[id].created_by
                 /\ reqs'[r] = Idle
      ]_vars

\* An update or an unassign has been refused while the assignment is active.
C9_Witness ==
    /\ last.op \in {"updateNotes", "unassign"}
    /\ last.result = "Forbidden"
    /\ \E a \in DOMAIN assignments : assignments[a].is_active

C5_NoOrphanUser ==
    \A u \in UserIds :
        /\ users[u].role = "doctor"
           => \E d \in DOMAIN doctors : doctors[d].user = u
        /\ users[u].role = "patient"
           => \E q \in DOMAIN patients : patients[q].user = u

\* A createDoctor has failed on the license number's uniqueness in storage,
\* after its User row was written inside the transaction.
C5_Witness ==
    last = [op |-> "createDoctor", result |-> "IntegrityError(license_number)"]

\* C6: no state has a doctor or patient profile with is_active false whose
\* owning user still has is_active true.
C6_DeactivatedTogether ==
    /\ \A d \in DOMAIN doctors :
          ~doctors[d].is_active => ~users[doctors[d].user].is_active
    /\ \A q \in DOMAIN patients :
          ~patients[q].is_active => ~users[patients[q].user].is_active

(***************************************************************************)
(* The doctors' update and soft-delete properties, checked under           *)
(* SpecDoctor.                                                             *)
(***************************************************************************)

\* The fields a patch asks for are in the user and profile rows of the next
\* state, the license number upper-cased and trimmed.
Applied(id, patch) ==
    /\ "phone" \in DOMAIN patch => users'[doctors[id].user].phone = patch.phone
    /\ "is_available" \in DOMAIN patch
       => doctors'[id].is_available = patch.is_available
    /\ "license_number" \in DOMAIN patch
       => doctors'[id].license_number = strip(upper(patch.license_number))

\* C7: an update (PUT or PATCH) of an active doctor profile answers Forbidden
\* exactly when the actor is neither the profile's creator nor its own user,
\* and then changes nothing; for the creator or the own user a patch that
\* passes validation goes on to the write, which applies it unless storage
\* rejects it; no write of an update comes from any other actor.
C7_UpdateDoctorPermission ==
    [][/\ \A r \in Requests : Begins(r, "updateDoctor") =>
          \A actor \in Actors, id \in DOMAIN doctors, patch \in DoctorPatches,
             partial \in BOOLEAN :
            (DoctorViewSet_update_load(r, actor, id, patch, partial)
             /\ doctors[id].is_active)
            => IF actor # doctors[id].created_by /\ actor # doctors[id].user
                 THEN /\ reqs'[r] = Idle
                      /\ last' = [op |-> "updateDoctor", result |-> "Forbidden"]
                      /\ users' = users
                      /\ doctors' = doctors
               ELSE IF DoctorUpdate_is_valid(id, patch, partial)
                 THEN reqs'[r].op = "updateDoctor" /\ reqs'[r].arg.patch = patch
               ELSE reqs'[r] = Idle /\ last'.result # "Forbidden"
       /\ \A r \in Requests :
            (Writes(r, "updateDoctor") /\ DoctorViewSet_update_save(r))
            => /\ reqs[r].actor \in {doctors[reqs[r].arg.id].created_by,
                                      doctors[reqs[r].arg.id].user}
               /\ last'.result = "OK" => Applied(reqs[r].arg.id, reqs[r].arg.patch)
               /\ last'.result # "OK" => users' = users /\ doctors' = doctors
      ]_vars

\* An update has been refused, and the doctor's own user, who did not create
\* the profile, has had one applied.
C7_Witness ==
    /\ last = [op |-> "updateDoctor", result |-> "Forbidden"]
    /\ \E d \in DOMAIN doctors :
          doctors[d].is_active /\ users[doctors[d].user].phone = "555"

\* C8: a soft delete of an active doctor profile by an actor other than its
\* creator answers Forbidden and changes nothing; a soft delete that answers
\* success leaves the profile and its user with is_active false.
C8_SoftDeleteDoctor ==
    [][/\ \A r \in Requests : Begins(r, "softDeleteDoctor") =>
          \A actor \in Actors, id \in DOMAIN doctors :
            (/\ DoctorViewSet_destroy_load(r, actor, id)
             /\ doctors[id].is_active
             /\ actor # doctors[id].created_by)
            => /\ reqs'[r] = Idle
               /\ last' = [op |-> "softDeleteDoctor", result |-> "Forbidden"]
               /\ users' = users
               /\ doctors' = doctors
       /\ \A r \in Requests :
            (/\ Writes(r, "softDeleteDoctor")
             /\ DoctorViewSet_destroy_user_save(r))
            => /\ last' = [op |-> "softDeleteDoctor", result |-> "OK"]
               /\ ~doctors'[reqs[r].arg.id].is_active
               /\ ~users'[reqs[r].arg.user].is_active
      ]_vars

(***************************************************************************)
(* Registration's properties, checked under SpecRegister.                  *)
(***************************************************************************)

\* C11: a registration whose role is patient, given or defaulted, and that
\* succeeds adds one user and exactly one patient profile, active, whose user
\* and created_by are both the new user; a successful registration with the
\* doctor or admin role adds one user and no profile of either kind.
C11_RegisterProfile ==
    [][/\ \A r \in Requests : Begins(r, "register") =>
          \A email \in RegisterEmailInputs, role \in RoleInputs :
            (RegisterView_post_is_valid(r, email, role) /\ reqs'[r] # Idle)
            => reqs'[r].arg.role = (IF role = "(absent)" THEN "patient" ELSE role)
       /\ \A r \in Requests :
            (/\ Writes(r, "register")
             /\ RegisterView_post_save(r)
             /\ last'.result = "Created")
            => LET new == Len(users) + 1
               IN  /\ Len(users') = new
                   /\ users'[new].role = reqs[r].arg.role
                   /\ doctors' = doctors
                   /\ IF reqs[r].arg.role = "patient"
                        THEN /\ Len(patients') = Len(patients) + 1
                             /\ \A q \in DOMAIN patients : patients'[q] = patients[q]
                             /\ patients'[Len(patients')].user = new
                             /\ patients'[Len(patients')].created_by = new
                             /\ patients'[Len(patients')].is_active
                             /\ Cardinality({q \in DOMAIN patients' :
                                                patients'[q].user = new}) = 1
                        ELSE patients' = patients
      ]_vars

\* A patient has registered and owns the profile it created, and a user of
\* the doctor role has registered and has no profile.
C11_Witness ==
    /\ last = [op |-> "register", result |-> "Created"]
    /\ \E q \in DOMAIN patients :
          patients[q].user = patients[q].created_by /\ patients[q].is_active
    /\ \E u \in UserIds :
          /\ users[u].role = "doctor"
          /\ \A q \in DOMAIN patients : patients[q].user # u
    /\ doctors = <<>>

\* C12: a registration whose email equals, up to letter case and surrounding
\* whitespace, the email of a user already registered is answered with the
\* typed validation failure and does not go on to the insert; no user and no
\* profile is written.
C12_SecondRegistrationConflict ==
    [][\A r \in Requests : Begins(r, "register") =>
          \A email \in RegisterEmailInputs, role \in RoleInputs :
            (/\ RegisterView_post_is_valid(r, email, role)
             /\ \E u \in UserIds : users[u].email = lower(strip(email)))
            => /\ reqs'[r] = Idle
               /\ last' = [op |-> "register", result |-> "ValidationError"]
               /\ users' = users
               /\ patients' = patients
      ]_vars

(***************************************************************************)
(* The license number's properties at creation, checked under SpecCreate.  *)
(***************************************************************************)

\* C13: a createDoctor whose license number equals, letter case ignored, the
\* license number of an active doctor profile is answered Conflict on the
\* license number, and writes no user and no doctor profile.
C13_LicenseConflict ==
    [][\A r \in Requests : Begins(r, "createDoctor") =>
          \A actor \in Actors, email \in EmailInputs,
             license_number \in LicenseInputs, is_available \in IsAvailableInputs :
            (/\ DoctorViewSet_create_is_valid(r, actor, email, license_number,
                                              is_available)
             /\ \E d \in DOMAIN doctors :
                   /\ doctors[d].is_active
                   /\ upper(doctors[d].license_number) = upper(license_number))
            => /\ reqs'[r] = Idle
               /\ last'.op = "createDoctor"
               /\ last'.result \in {"Conflict(license_number)",
                                     "Conflict(email, license_number)"}
               /\ users' = users
               /\ doctors' = doctors
      ]_vars

\* A creation has been refused on the license number alone while an active
\* doctor holds one.
C13_Witness ==
    /\ last = [op |-> "createDoctor", result |-> "Conflict(license_number)"]
    /\ \E d \in DOMAIN doctors : doctors[d].is_active

\* C14: a createDoctor whose license number is that of a soft-deleted doctor
\* profile is refused by the pre-check: answered Conflict on the license
\* number at once, with nothing written.
C14_PrecheckSeesSoftDeleted ==
    [][\A r \in Requests : Begins(r, "createDoctor") =>
          \A actor \in Actors, email \in EmailInputs,
             license_number \in LicenseInputs, is_available \in IsAvailableInputs :
            (/\ DoctorViewSet_create_is_valid(r, actor, email, license_number,
                                              is_available)
             /\ \E d \in DOMAIN doctors :
                   /\ ~doctors[d].is_active
                   /\ doctors[d].license_number = upper(license_number))
            => /\ reqs'[r] = Idle
               /\ last'.op = "createDoctor"
               /\ last'.result \in {"Conflict(license_number)",
                                     "Conflict(email, license_number)"}
               /\ users' = users
               /\ doctors' = doctors
      ]_vars

(***************************************************************************)
(* The stored license numbers, checked under SpecLicense.                  *)
(***************************************************************************)

\* C15: in every reachable state, after any interleaving of createDoctor,
\* updateDoctor and softDeleteDoctor, no two doctor profiles, active or not,
\* store the same license number, and every stored license number is
\* upper-cased and has no surrounding whitespace.
C15_LicenseUniqueNormalised ==
    /\ \A a, b \in DOMAIN doctors :
          a # b => doctors[a].license_number # doctors[b].license_number
    /\ \A d \in DOMAIN doctors :
          LET l == doctors[d].license_number
          IN  /\ \A i \in DOMAIN l : l[i] \notin {"a", "b", "c", "d"}
              /\ l # <<>> => (l[1] # " " /\ l[Len(l)] # " ")

\* Two doctor profiles, one soft-deleted and one active, and an update just
\* refused by storage for a license number in use.
C15_Witness ==
    /\ last = [op |-> "updateDoctor", result |-> "IntegrityError(license_number)"]
    /\ \E a, b \in DOMAIN doctors :
          /\ ~doctors[a].is_active
          /\ doctors[b].is_active
          /\ doctors[b].license_number = <<"B">>

(***************************************************************************)
(* The patient profiles' properties, checked under SpecPatient.            *)
(***************************************************************************)

\* C16: the list of patients an actor gets holds exactly the patient
\* profiles that are active and were created by that actor: none created by
\* another user (a patient that registered itself is in no other actor's
\* list), none soft-deleted, and every active one the actor created.
C16_ListPatients ==
    [][\A r \in Requests : Begins(r, "listPatients") =>
          \A actor \in Actors :
            PatientViewSet_list(r, actor)
            => /\ last'.op = "listPatients"
               /\ \A q \in DOMAIN patients :
                    q \in last'.result
                    <=> (patients[q].is_active /\ patients[q].created_by = actor)
               /\ \A q \in DOMAIN patients :
                    (patients[q].created_by = patients[q].user
                     /\ actor # patients[q].user)
                    => q \notin last'.result
               /\ last'.result \subseteq DOMAIN patients
      ]_vars

\* A list has been answered that holds a profile, while another active
\* profile, of another creator, and so not in that list, exists.
C16_Witness ==
    /\ last.op = "listPatients"
    /\ \E q, o \in DOMAIN patients :
          /\ q \in last.result
          /\ o \notin last.result
          /\ patients[o].is_active
          /\ patients[o].created_by # patients[q].created_by

\* C17: an update or a soft delete of an active patient profile by an actor
\* that did not create it, the patient's own user included, answers NotFound
\* and leaves the profile and its user as they are; by its creator it goes
\* on, with no other check than the patch's validation, and succeeds; every
\* write of these two operations comes from the profile's creator.
C17_PatientReach ==
    [][/\ \A r \in Requests : Begins(r, "updatePatient") =>
          \A actor \in Actors, id \in DOMAIN patients,
             patch \in PatientPatches, partial \in BOOLEAN :
            (/\ patients[id].is_active
             /\ PatientViewSet_update_load(r, actor, id, patch, partial))
            => IF patients[id].created_by # actor
                 THEN /\ reqs'[r] = Idle
                      /\ last' = [op |-> "updatePatient", result |-> "NotFound"]
                      /\ users' = users
                      /\ patients' = patients
               ELSE IF PatientUpdate_is_valid(patch, partial)
                 THEN reqs'[r].op = "updatePatient"
               ELSE reqs'[r] = Idle /\ last'.result = "ValidationError"
       /\ \A r \in Requests : Begins(r, "softDeletePatient") =>
          \A actor \in Actors, id \in DOMAIN patients :
            (/\ patients[id].is_active
             /\ PatientViewSet_destroy_load(r, actor, id))
            => IF patients[id].created_by # actor
                 THEN /\ reqs'[r] = Idle
                      /\ last' = [op |-> "softDeletePatient", result |-> "NotFound"]
                      /\ users' = users
                      /\ patients' = patients
               ELSE reqs'[r].op = "softDeletePatient"
       /\ \A r \in Requests :
            (Writes(r, "updatePatient") \/ Writes(r, "softDeletePatient"))
            => /\ reqs[r].actor = patients[reqs[r].arg.id].created_by
               /\ reqs'[r] = Idle => last'.result = "OK"
               /\ (reqs'[r] = Idle /\ reqs[r].op = "updatePatient")
                  => /\ "phone" \in DOMAIN reqs[r].arg.patch
                        => users'[patients[reqs[r].arg.id].user].phone
                               = reqs[r].arg.patch.phone
                     /\ "blood_group" \in DOMAIN reqs[r].arg.patch
                        => patients'[reqs[r].arg.id].blood_group
                               = reqs[r].arg.patch.blood_group
      ]_vars

\* An update or a soft delete has been answered NotFound while every profile
\* is active, one of them created by another user than its own, and an
\* update by a creator has been applied.
C17_Witness ==
    /\ last.op \in {"updatePatient", "softDeletePatient"}
    /\ last.result = "NotFound"
    /\ Len(patients) = 2
    /\ \A q \in DOMAIN patients : patients[q].is_active
    /\ \E q \in DOMAIN patients :
          /\ patients[q].created_by # patients[q].user
          /\ patients[q].blood_group = "A+"

(***************************************************************************)
(* Assignment and listing, checked under SpecRoundTrip.                    *)
(***************************************************************************)

\* C18: right after an assign of doctor d to patient p has succeeded, the
\* list of the patient's doctors (by the patient's user id, and by the
\* patient's profile for an actor that reaches it) holds exactly one entry
\* whose doctor is d, with the notes given; right after an unassign of a link
\* of p and d has succeeded, the list of p holds no entry for d.
C18_AssignListRoundTrip ==
    [][/\ \A r \in Requests :
            (/\ Writes(r, "assign")
             /\ AssignmentViewSet_create_save(r)
             /\ last'.result = "Created")
            => \A p, d \in UserIds, notes \in NotesInputs :
                 (/\ p = reqs[r].arg.patient
                  /\ d = reqs[r].arg.doctor
                  /\ notes = reqs[r].arg.notes)
                 => /\ AssignmentViewSet_patient_mappings(p)'.status = "OK"
                    /\ Cardinality(
                          {e \in AssignmentViewSet_patient_mappings(p)'.data :
                             e.doctor = d}) = 1
                    /\ \A e \in AssignmentViewSet_patient_mappings(p)'.data :
                         e.doctor = d => e.notes = notes
                    /\ \A id \in DOMAIN patients, actor \in UserIds :
                         (/\ patients[id].user = p
                          /\ patients[id].is_active
                          /\ patients[id].created_by = actor)
                         => PatientViewSet_doctors(id, actor)'
                              = AssignmentViewSet_patient_mappings(p)'
       /\ \A r \in Requests :
            (/\ Writes(r, "unassign")
             /\ AssignmentViewSet_destroy_save(r)
             /\ last'.result = "OK")
            => \A p, d \in UserIds :
                 (/\ p = assignments[reqs[r].arg.id].patient
                  /\ d = assignments[reqs[r].arg.id].doctor)
                 => \A e \in AssignmentViewSet_patient_mappings(p)'.data :
                      e.doctor # d
      ]_vars

(***************************************************************************)
(* The listings of doctors and the login, checked under SpecAccess.        *)
(***************************************************************************)

\* C19: the list of doctors any actor gets holds exactly the doctor profiles
\* with is_active true, and the list of available doctors exactly those of
\* them with is_available true; a doctor profile once soft-deleted is in
\* neither list of any later state.
C19_ListDoctors ==
    [][/\ \A r \in Requests : Begins(r, "listDoctors") =>
          \A actor \in Actors :
            DoctorViewSet_list(r, actor)
            => \A d \in DOMAIN doctors :
                 d \in last'.result <=> doctors[d].is_active
       /\ \A r \in Requests : Begins(r, "listAvailableDoctors") =>
          \A actor \in Actors :
            DoctorViewSet_available(r, actor)
            => \A d \in DOMAIN doctors :
                 d \in last'.result
                 <=> (doctors[d].is_active /\ doctors[d].is_available)
       /\ \A d \in DOMAIN doctors :
            ~doctors[d].is_active => d \notin DoctorViewSet_get_queryset'
      ]_vars

\* C20: a login with the email and the password of a user whose is_active is
\* false is answered ACCOUNT_DISABLED, not INVALID_CREDENTIALS, and issues no
\* tokens; a user once deactivated by a soft delete stays so in every later
\* state, so that no later login of it is answered with tokens.
C20_LoginDisabled ==
    [][/\ \A r \in Requests : Begins(r, "login") =>
          \A email \in LoginEmailInputs, u \in UserIds :
            (/\ LoginView_post(r, email, TRUE)
             /\ users[u].email = lower(strip(email))
             /\ ~users[u].is_active)
            => last' = [op |-> "login", result |-> "ACCOUNT_DISABLED"]
       /\ \A u \in UserIds :
            (users[u].role \in {"doctor", "patient"} /\ ~users[u].is_active)
            => ~users'[u].is_active
      ]_vars

(***************************************************************************)
(* Who creates the doctors, checked under SpecCreate.                      *)
(***************************************************************************)

\* C21: a createDoctor by an actor whose role is not admin (an actor of the
\* patient role among them) is refused and writes nothing, so that in every
\* state the created_by of every doctor profile is a user of the admin role.
C21_DoctorCreationPrivileged ==
    [][/\ \A r \in Requests : Begins(r, "createDoctor") =>
          \A actor \in Actors, email \in EmailInputs,
             license_number \in LicenseInputs, is_available \in IsAvailableInputs :
            (/\ DoctorViewSet_create_is_valid(r, actor, email, license_number,
                                              is_available)
             /\ users[actor].role # "admin")
            => /\ reqs'[r] = Idle
               /\ last'.result \notin {"Created"} \cup UnhandledErrors
               /\ users' = users
               /\ doctors' = doctors
       /\ \A d \in DOMAIN doctors' :
            users'[doctors'[d].created_by].role = "admin"
      ]_vars

\* Every operation that writes a user or a profile.
NextProfiles ==
    \/ Register
    \/ RegisterSave
    \/ CreateDoctor
    \/ CreateDoctorSave
    \/ CreatePatient
    \/ CreatePatientSave
    \/ UpdateDoctor
    \/ UpdateDoctorSave
    \/ UpdatePatient
    \/ UpdatePatientSave
    \/ SoftDeleteDoctor
    \/ SoftDeleteDoctorProfile
    \/ SoftDeleteDoctorUser
    \/ SoftDeletePatient
    \/ SoftDeletePatientProfile
    \/ SoftDeletePatientUser

\* A database with an admin and a user that registered with the doctor role,
\* which gave it no profile.
InitProfiles ==
    /\ users = << [email |-> <<"a">>, role |-> "admin", is_active |-> TRUE, phone |-> ""],
                  [email |-> <<"d">>, role |-> "doctor", is_active |-> TRUE, phone |-> ""] >>
    /\ doctors = <<>>
    /\ patients = <<>>
    /\ assignments = <<>>
    /\ reqs = [r \in Requests |-> Idle]
    /\ last = [op |-> "none", result |-> "none"]
    /\ today = 1

SpecProfiles == InitProfiles /\ [][NextProfiles]_vars

(***************************************************************************)
(* The links between users and profiles, checked under SpecProfiles.       *)
(***************************************************************************)

\* The profiles, of either kind, that a user owns.
ProfilesOf(u) ==
    Cardinality({d \in DOMAIN doctors : doctors[d].user = u})
    + Cardinality({q \in DOMAIN patients : patients[q].user = u})

\* C22: in every state each doctor profile's user is a user of the doctor
\* role, each patient profile's user is a user of the patient role, and no
\* user owns more than one profile; no step of register, create, update or
\* soft delete changes the role of a user or the user of a profile.
C22_ProfileLinks ==
    [][/\ \A d \in DOMAIN doctors' : users'[doctors'[d].user].role = "doctor"
       /\ \A q \in DOMAIN patients' : users'[patients'[q].user].role = "patient"
       /\ \A u \in DOMAIN users' : ProfilesOf(u)' <= 1
       /\ \A u \in DOMAIN users : users'[u].role = users[u].role
       /\ \A d \in DOMAIN doctors : doctors'[d].user = doctors[d].user
       /\ \A q \in DOMAIN patients : patients'[q].user = patients[q].user
      ]_vars

\* A doctor profile has been created, updated and soft-deleted, its user still
\* of the doctor role, beside a user of the doctor role that owns no profile.
C22_Witness ==
    /\ \E d \in DOMAIN doctors :
          /\ ~doctors[d].is_active
          /\ users[doctors[d].user].role = "doctor"
          /\ users[doctors[d].user].phone = "555"
          /\ ProfilesOf(doctors[d].user) = 1
    /\ \E u \in UserIds : users[u].role = "doctor" /\ ProfilesOf(u) = 0

(***************************************************************************)
(* The atomicity of the doctor's update, checked under SpecDoctor.         *)
(***************************************************************************)

\* C23: the write of an updateDoctor whose patch touches both a user-level
\* and a profile-level field is all or nothing: when the profile write fails
\* on the license number's uniqueness in storage the user row and the profile
\* row are left as they were, the user-level change not persisted; when it
\* succeeds the user-level and the profile-level changes are both persisted.
C23_UpdateDoctorAtomic ==
    [][\A r \in Requests :
          (/\ Writes(r, "updateDoctor")
           /\ DoctorViewSet_update_save(r)
           /\ DOMAIN reqs[r].arg.patch \cap UserFields # {}
           /\ DOMAIN reqs[r].arg.patch \ UserFields # {})
          => LET id == reqs[r].arg.id
                 patch == reqs[r].arg.patch
             IN  /\ last'.op = "updateDoctor"
                 /\ last'.result \in {"OK", "IntegrityError(license_number)"}
                 /\ last'.result = "IntegrityError(license_number)"
                    => /\ users' = users
                       /\ doctors' = doctors
                 /\ last'.result = "OK"
                    => /\ users'[doctors[id].user].phone = patch.phone
                       /\ doctors'[id].license_number
                              = strip(upper(patch.license_number))
                       /\ doctors'[id].is_available = patch.is_available
                 /\ ~doctors_unique([doctors EXCEPT ![id].license_number =
                                        strip(upper(patch.license_number))])
                    => last'.result = "IntegrityError(license_number)"
      ]_vars

\* An update has failed on the license number in storage while the doctor
\* that holds the license number "B" has its user and profile untouched, and
\* the other doctor has had a patch of both levels applied.
C23_Witness ==
    /\ last = [op |-> "updateDoctor", result |-> "IntegrityError(license_number)"]
    /\ \E a, b \in DOMAIN doctors :
          /\ doctors[a].license_number = <<"A">>
          /\ ~doctors[a].is_available
          /\ users[doctors[a].user].phone = "555"
          /\ doctors[b].license_number = <<"B">>
          /\ doctors[b].is_available
          /\ users[doctors[b].user].phone = ""

(***************************************************************************)
(* Soft deletion over time, checked under SpecDoctor.                      *)
(***************************************************************************)

\* C24: no step removes a row of the users, the doctor profiles, the patient
\* profiles or the assignments, and no step sets the is_active of a row that
\* has it false back to true.
C24_SoftDeleteIrreversible ==
    [][/\ Len(users') >= Len(users)
       /\ Len(doctors') >= Len(doctors)
       /\ Len(patients') >= Len(patients)
       /\ Len(assignments') >= Len(assignments)
       /\ \A u \in DOMAIN users : ~users[u].is_active => ~users'[u].is_active
       /\ \A d \in DOMAIN doctors : ~doctors[d].is_active => ~doctors'[d].is_active
       /\ \A q \in DOMAIN patients :
            ~patients[q].is_active => ~patients'[q].is_active
       /\ \A a \in DOMAIN assignments :
            ~assignments[a].is_active => ~assignments'[a].is_active
      ]_vars

(***************************************************************************)
(* The soft deletes beside the ledger, checked under SpecMappings.         *)
(***************************************************************************)

\* The row as it is but for its is_active, which is false.
Deactivated(row) == [row EXCEPT !.is_active = FALSE]

\* C25: the writes of softDeleteDoctor and softDeletePatient change nothing
\* but the is_active of the profile and of its user: every assignment row,
\* the active ones of the deactivated user among them, stays as it is; an
\* assign that names a deactivated user is validated as for an active one,
\* by the roles and by the active row of the pair alone, and its insert
\* succeeds when the pair has no active row.
C25_SoftDeleteFrame ==
    [][/\ \A r \in Requests :
            (Writes(r, "softDeleteDoctor") \/ Writes(r, "softDeletePatient"))
            => /\ assignments' = assignments
               /\ DOMAIN users' = DOMAIN users
               /\ \A u \in DOMAIN users :
                    \/ users'[u] = users[u]
                    \/ u = reqs[r].arg.user /\ users'[u] = Deactivated(users[u])
               /\ DOMAIN doctors' = DOMAIN doctors
               /\ \A d \in DOMAIN doctors :
                    \/ doctors'[d] = doctors[d]
                    \/ /\ reqs[r].op = "softDeleteDoctor"
                       /\ d = reqs[r].arg.id
                       /\ doctors[d].user = reqs[r].arg.user
                       /\ doctors'[d] = Deactivated(doctors[d])
               /\ DOMAIN patients' = DOMAIN patients
               /\ \A q \in DOMAIN patients :
                    \/ patients'[q] = patients[q]
                    \/ /\ reqs[r].op = "softDeletePatient"
                       /\ q = reqs[r].arg.id
                       /\ patients[q].user = reqs[r].arg.user
                       /\ patients'[q] = Deactivated(patients[q])
               /\ reqs'[r] = Idle
                  => /\ ~users'[reqs[r].arg.user].is_active
                     /\ last'.result = "OK"
       /\ \A r \in Requests : Begins(r, "assign") =>
          \A actor \in Actors, p, d \in UserIds, n \in NotesInputs :
            (/\ AssignmentViewSet_create_is_valid(r, actor, p, d, n)
             /\ (~users[p].is_active \/ ~users[d].is_active))
            => IF users[p].role # "patient" \/ users[d].role # "doctor"
                 THEN /\ reqs'[r] = Idle
                      /\ last' = [op |-> "assign", result |-> "RoleMismatch"]
               ELSE IF ActiveAssignments(p, d) # {}
                 THEN /\ reqs'[r] = Idle
                      /\ last' = [op |-> "assign", result |-> "Conflict"]
               ELSE reqs'[r].op = "assign"
       /\ \A r \in Requests :
            (/\ Writes(r, "assign")
             /\ AssignmentViewSet_create_save(r)
             /\ \/ ~users[reqs[r].arg.patient].is_active
                \/ ~users[reqs[r].arg.doctor].is_active
             /\ ActiveAssignments(reqs[r].arg.patient, reqs[r].arg.doctor) = {})
            => /\ last' = [op |-> "assign", result |-> "Created"]
               /\ assignments'[Len(assignments')].is_active
      ]_vars

\* The patient and the doctor are both deactivated, profiles and users, their
\* active assignment of before still stands, and an assign that named them
\* afterwards has been answered Conflict.
C25_Witness ==
    /\ last = [op |-> "assign", result |-> "Conflict"]
    /\ \A q \in DOMAIN patients : ~patients[q].is_active
    /\ \A d \in DOMAIN doctors : ~doctors[d].is_active
    /\ \E a \in DOMAIN assignments :
          /\ assignments[a].is_active
          /\ ~users[assignments[a].patient].is_active
          /\ ~users[assignments[a].doctor].is_active

\* C27: the listing of a patient's assignments by the patient's user id
\* answers NotFound when the id is that of no user, of a user of another role
\* or of a patient user with is_active false, whatever assignments name that
\* user; otherwise it answers, to any actor alike, exactly the active
\* assignments whose patient is that user.
C27_ListForPatient ==
    [][\A r \in Requests : Begins(r, "listForPatient") =>
          \A actor \in Actors, patient_id \in UserIdInputs :
            AssignmentViewSet_patient_mappings_get(r, actor, patient_id)
            => /\ reqs'[r] = Idle
               /\ last'.op = "listForPatient"
               /\ UNCHANGED <<users, doctors, patients, assignments>>
               /\ IF \/ patient_id \notin UserIds
                     \/ users[patient_id].role # "patient"
                     \/ ~users[patient_id].is_active
                    THEN last'.result = [status |-> "NotFound", data |-> {}]
                    ELSE /\ last'.result.status = "OK"
                         /\ {e.id : e \in last'.result.data}
                              = {a \in DOMAIN assignments :
                                   /\ assignments[a].is_active
                                   /\ assignments[a].patient = patient_id}
                         /\ \A e \in last'.result.data :
                              /\ e.doctor = assignments[e.id].doctor
                              /\ e.notes = assignments[e.id].notes
      ]_vars

\* A listing has been answered NotFound after the patient's user was
\* deactivated, while an active assignment of that patient exists, created by
\* another user.
C27_Witness ==
    /\ last.op = "listForPatient"
    /\ last.result.status = "NotFound"
    /\ \E a \in DOMAIN assignments :
          /\ assignments[a].is_active
          /\ users[assignments[a].patient].role = "patient"
          /\ ~users[assignments[a].patient].is_active
          /\ assignments[a].created_by # assignments[a].patient

(***************************************************************************)
(* Requests for a soft-deleted record, checked under SpecRecords.          *)
(***************************************************************************)

\* The request in slot r has been answered NotFound at once, and no row of
\* any table has changed.
NotFoundNoChange(r, op) ==
    /\ reqs'[r] = Idle
    /\ last' = [op |-> op, result |-> "NotFound"]
    /\ UNCHANGED <<users, doctors, patients, assignments>>

\* C26: a retrieve, an update (PUT or PATCH, whatever its body) or a soft
\* delete that finds its doctor profile, patient profile or assignment with
\* is_active false is answered NotFound, never success or Forbidden, for
\* every actor, the record's creator included, and changes nothing; so is a
\* soft delete or an unassign of a record soft-deleted before.
C26_SoftDeletedNotFound ==
    [][/\ \A r \in Requests : Begins(r, "retrieveDoctor") =>
          \A actor \in Actors, id \in DOMAIN doctors :
            (~doctors[id].is_active /\ DoctorViewSet_retrieve(r, actor, id))
            => NotFoundNoChange(r, "retrieveDoctor")
       /\ \A r \in Requests : Begins(r, "updateDoctor") =>
          \A actor \in Actors, id \in DOMAIN doctors, patch \in DoctorPatches,
             partial \in BOOLEAN :
            (/\ ~doctors[id].is_active
             /\ DoctorViewSet_update_load(r, actor, id, patch, partial))
            => NotFoundNoChange(r, "updateDoctor")
       /\ \A r \in Requests : Begins(r, "softDeleteDoctor") =>
          \A actor \in Actors, id \in DOMAIN doctors :
            (~doctors[id].is_active /\ DoctorViewSet_destroy_load(r, actor, id))
            => NotFoundNoChange(r, "softDeleteDoctor")
       /\ \A r \in Requests : Begins(r, "retrievePatient") =>
          \A actor \in Actors, id \in DOMAIN patients :
            (~patients[id].is_active /\ PatientViewSet_retrieve(r, actor, id))
            => NotFoundNoChange(r, "retrievePatient")
       /\ \A r \in Requests : Begins(r, "updatePatient") =>
          \A actor \in Actors, id \in DOMAIN patients, patch \in PatientPatches,
             partial \in BOOLEAN :
            (/\ ~patients[id].is_active
             /\ PatientViewSet_update_load(r, actor, id, patch, partial))
            => NotFoundNoChange(r, "updatePatient")
       /\ \A r \in Requests : Begins(r, "softDeletePatient") =>
          \A actor \in Actors, id \in DOMAIN patients :
            (~patients[id].is_active /\ PatientViewSet_destroy_load(r, actor, id))
            => NotFoundNoChange(r, "softDeletePatient")
       /\ \A r \in Requests : Begins(r, "retrieveAssignment") =>
          \A actor \in Actors, id \in DOMAIN assignments :
            (~assignments[id].is_active /\ AssignmentViewSet_retrieve(r, actor, id))
            => NotFoundNoChange(r, "retrieveAssignment")
       /\ \A r \in Requests : Begins(r, "updateNotes") =>
          \A actor \in Actors, id \in DOMAIN assignments, body \in UpdateBodies :
            (/\ ~assignments[id].is_active
             /\ AssignmentViewSet_update_load(r, actor, id, body))
            => NotFoundNoChange(r, "updateNotes")
       /\ \A r \in Requests : Begins(r, "unassign") =>
          \A actor \in Actors, id \in DOMAIN assignments :
            (~assignments[id].is_active /\ AssignmentViewSet_destroy_load(r, actor, id))
            => NotFoundNoChange(r, "unassign")
      ]_vars

\* A soft delete of a patient has been answered NotFound while every record
\* of the three kinds is soft-deleted, the patient's user deactivated with
\* it, and the creator of the records is still an active user.
C26_Witness ==
    /\ last = [op |-> "softDeletePatient", result |-> "NotFound"]
    /\ \A d \in DOMAIN doctors : ~doctors[d].is_active
    /\ \A q \in DOMAIN patients :
          /\ ~patients[q].is_active
          /\ ~users[patients[q].user].is_active
          /\ users[patients[q].created_by].is_active
    /\ \A a \in DOMAIN assignments :
          /\ ~assignments[a].is_active
          /\ users[assignments[a].created_by].is_active
    /\ \A r \in Requests : reqs[r] = Idle

====
